---------------------------- MODULE Spec2Model ----------------------------
(***************************************************************************)
(* GoPiGo3WithKeyboard (my_keyboarded_robot.py): the key dispatcher, the   *)
(* toggle flags and the two scripted routines, as a state machine.         *)
(*                                                                         *)
(* One call of executeKeyboardJob is modelled as a frame that the          *)
(* interpreter below runs statement by statement: each handler method is   *)
(* written as the list of its statements in source order, and one action   *)
(* exists per statement kind.  Calls on self.gopigo3 (the EasyGoPiGo3      *)
(* driver, which is not part of this repository) are recorded in the log   *)
(* `calls`; each of them either returns or raises, nondeterministically.   *)
(* Execution is single-threaded: a new key is dispatched only when the     *)
(* previous call has returned or raised (pc = 0).                          *)
(*                                                                         *)
(* Arithmetic is Python 3's: 60/128, 90/135 and 380/2*1.141 are true       *)
(* divisions.  Numbers passed to the driver are kept as exact fractions    *)
(* <<numerator, denominator>>; sleeps are kept as the multiple of `beat`   *)
(* they are written as, counted in half beats.                             *)
(***************************************************************************)
EXTENDS Integers, Sequences, FiniteSets, TLC

VARIABLES
    self,         \* the object's attributes: the four flags and keybindings
    argument,     \* the key given to the current (or last) executeKeyboardJob
    method_name,  \* executeKeyboardJob's local method_name (line 95)
    pc,           \* 0: no call in progress; i > 0: next statement of the method
    locals,       \* the running method's local variables
    calls,        \* driver calls issued by the current (or last) invocation
    slept,        \* half beats slept by the current (or last) invocation
    result,       \* "none" while running, the value returned, or "raised"
    entry,        \* history: the four flags when the invocation started
    before,       \* history: the flags at the start of the preceding invocation,
                  \* kept when it had the same key and returned normally
    printed,      \* the lines printed by the last operation called on the object
    outputs       \* history: for each light, the sense of the last on/off call
                  \* issued for it that returned (all off at the start)

vars == <<self, argument, method_name, pc, locals, calls, slept, result, entry, before, printed, outputs>>

----------------------------------------------------------------------------
(* Values *)

Num(n) == <<n, 1>>
Frac(n, d) == <<n, d>>

\* Number of steps in which random.randint's range is sampled.
ColourSteps == 2

\* The values drawn for random.randint(lo, hi): lo, hi and evenly spaced between.
randint(lo, hi) == { lo + ((hi - lo) * i) \div ColourSteps : i \in 0..ColourSteps }

Flags == {"left_blinker_on", "right_blinker_on", "left_eye_on", "right_eye_on"}

FlagsOf(obj) == [f \in Flags |-> obj[f]]

----------------------------------------------------------------------------
(* Statements *)

\* Argument expressions of a driver call.
Lit(v) == [k |-> "lit", v |-> v]
Times(var, by) == [k |-> "times", var |-> var, by |-> by]
Tuple(names) == [k |-> "tuple", names |-> names]

Eval(e, loc) ==
    CASE e.k = "lit" -> e.v
      [] e.k = "times" -> Num(loc[e.var] * e.by)
      [] e.k = "tuple" -> [i \in 1..Len(e.names) |-> loc[e.names[i]]]

\* self.gopigo3.<name>(<args>)
Call(name, args) == [op |-> "call", name |-> name, args |-> args]
\* A slip in the sleeps: beat * d written where beat / d is meant.
Sleep_times_divisor(n, d) == [op |-> "sleep", n |-> n * d, d |-> 1]
\* sleep(beat * n / d)
Sleep(n, d) == [op |-> "sleep", n |-> n, d |-> d]
\* a string literal standing as a statement, """beat <b>""": evaluated and dropped
Mark(b) == [op |-> "mark", beat |-> b]
\* <var> = <value>
Store(var, value) == [op |-> "store", var |-> var, value |-> value]
\* <var> = random.randint(lo, hi)
RandInt(var, lo, hi) == [op |-> "randint", var |-> var, lo |-> lo, hi |-> hi]
\* <var> -= 1
Decr(var) == [op |-> "decr", var |-> var]
\* while <var> > 0: ... ; `exit` is the statement after the loop
While(var, exit) == [op |-> "while", var |-> var, exit |-> exit]
\* end of a loop body or of an if branch
Goto(target) == [op |-> "goto", target |-> target]
\* if self.<a> is <value> [and self.<b> is <value>]: ... ; `else` is where the
\* test leads when it fails
If(attrs, value, else) == [op |-> "if", attrs |-> attrs, value |-> value, else |-> else]
\* self.<a> [= self.<b>] = <value>
SetAttr(attrs, value) == [op |-> "setattr", attrs |-> attrs, value |-> value]
\* return "<value>"
Return(value) == [op |-> "return", value |-> value]

----------------------------------------------------------------------------
(* __init__ *)

KEY_DESCRIPTION == 0
KEY_FUNC_SUFFIX == 1

keybindings ==
    "w" :> <<"Move the GoPiGo3 forward", "forward">> @@
    "s" :> <<"Move the GoPiGo3 backward", "backward">> @@
    "a" :> <<"Turn the GoPiGo3 to the left", "left">> @@
    "d" :> <<"Turn the GoPiGo3 to the right", "right">> @@
    "<SPACE>" :> <<"Stop the GoPiGo3 from moving", "stop">> @@
    "<F1>" :> <<"Drive forward for 10 centimeters", "forward10cm">> @@
    "<F2>" :> <<"Drive forward for 10 inches", "forward10in">> @@
    "<F3>" :> <<"Drive forward for 360 degrees (aka 1 wheel rotation)", "forwardturn">> @@
    "1" :> <<"Turn ON/OFF left blinker of the GoPiGo3", "leftblinker">> @@
    "2" :> <<"Turn ON/OFF right blinker of the GoPiGo3", "rightblinker">> @@
    "3" :> <<"Turn ON/OFF both blinkers of the GoPiGo3", "blinkers">> @@
    "5" :> <<"Do a little boogie woogie", "activatedance">> @@
    "7" :> <<"Deliver altoids from kitchen to computer", "deliveraltoids">> @@
    "8" :> <<"Turn ON/OFF left eye of the GoPiGo3", "lefteye">> @@
    "9" :> <<"Turn ON/OFF right eye of the GoPiGo3", "righteye">> @@
    "0" :> <<"Turn ON/OFF both eyes of the GoPiGo3", "eyes">> @@
    "e" :> <<"Change the eyes' color on the go", "eyescolor">> @@
    "<ESC>" :> <<"Exit", "exit">>

order_of_keys ==
    <<"w", "s", "a", "d", "<SPACE>", "<F1>", "<F2>", "<F3>", "1", "2", "3", "5", "7",
      "8", "9", "0", "e", "<ESC>">>

\* The object after construction: the class attributes (all flags False) and
\* the instance attributes keybindings and order_of_keys.
NewObject(kb) ==
    [left_blinker_on |-> FALSE, right_blinker_on |-> FALSE,
     left_eye_on |-> FALSE, right_eye_on |-> FALSE,
     keybindings |-> kb, order_of_keys |-> order_of_keys]

----------------------------------------------------------------------------
(* The handler methods, statement by statement *)

\* A slip in the forward handler: the handler holds the motion for a beat and stops.
forward_for_a_beat ==
    << Call("forward", <<>>),
       Sleep(1, 1),
       Call("stop", <<>>),
       Return("moving") >>

_gopigo3_command_forward ==
    << Call("forward", <<>>),                       \* line 131
       Return("moving") >>                          \* line 133

_gopigo3_command_backward ==
    << Call("backward", <<>>),                      \* line 136
       Return("moving") >>                          \* line 138

_gopigo3_command_left ==
    << Call("left", <<>>),                          \* line 141
       Return("moving") >>                          \* line 143

_gopigo3_command_right ==
    << Call("right", <<>>),                         \* line 146
       Return("moving") >>                          \* line 148

_gopigo3_command_stop ==
    << Call("stop", <<>>),                          \* line 151
       Return("moving") >>                          \* line 153

_gopigo3_command_forward10cm ==
    << Call("drive_cm", <<Lit(Num(10))>>),          \* line 156
       Return("path") >>                            \* line 158

\* A slip in the 10 inch handler: the distance handed to the centimetre call.
forward10in_in_cm ==
    << Call("drive_cm", <<Lit(Num(10))>>),
       Return("path") >>

_gopigo3_command_forward10in ==
    << Call("drive_inches", <<Lit(Num(10))>>),      \* line 161
       Return("path") >>                            \* line 163

_gopigo3_command_forwardturn ==
    << Call("drive_degrees", <<Lit(Num(360))>>),    \* line 166
       Return("path") >>                            \* line 168

\* A slip in the left blinker toggle: the wrong LED index is switched.
leftblinker_wrong_led ==
    << If({"left_blinker_on"}, FALSE, 5),
       Call("led_on", <<Lit(Num(0))>>),
       SetAttr({"left_blinker_on"}, TRUE),
       Goto(7),
       Call("led_off", <<Lit(Num(0))>>),
       SetAttr({"left_blinker_on"}, FALSE),
       Return("static") >>

_gopigo3_command_leftblinker ==
    << If({"left_blinker_on"}, FALSE, 5),           \* line 171
       Call("led_on", <<Lit(Num(1))>>),             \* line 172
       SetAttr({"left_blinker_on"}, TRUE),          \* line 173
       Goto(7),                                     \* line 174 (else)
       Call("led_off", <<Lit(Num(1))>>),            \* line 175
       SetAttr({"left_blinker_on"}, FALSE),         \* line 176
       Return("static") >>                          \* line 178

_gopigo3_command_rightblinker ==
    << If({"right_blinker_on"}, FALSE, 5),          \* line 181
       Call("led_on", <<Lit(Num(0))>>),             \* line 182
       SetAttr({"right_blinker_on"}, TRUE),         \* line 183
       Goto(7),                                     \* line 184 (else)
       Call("led_off", <<Lit(Num(0))>>),            \* line 185
       SetAttr({"right_blinker_on"}, FALSE),        \* line 186
       Return("static") >>                          \* line 188

\* A slip in the both-blinkers toggle: only the left flag is tested.
blinkers_test_left_only ==
    << If({"left_blinker_on"}, FALSE, 6),
       Call("led_on", <<Lit(Num(0))>>),
       Call("led_on", <<Lit(Num(1))>>),
       SetAttr({"left_blinker_on", "right_blinker_on"}, TRUE),
       Goto(9),
       Call("led_off", <<Lit(Num(0))>>),
       Call("led_off", <<Lit(Num(1))>>),
       SetAttr({"left_blinker_on", "right_blinker_on"}, FALSE),
       Return("static") >>

\* A slip in the both-blinkers toggle: each flag is set right after its own LED.
blinkers_flag_after_each_led ==
    << If({"left_blinker_on", "right_blinker_on"}, FALSE, 7),
       Call("led_on", <<Lit(Num(0))>>),
       SetAttr({"right_blinker_on"}, TRUE),
       Call("led_on", <<Lit(Num(1))>>),
       SetAttr({"left_blinker_on"}, TRUE),
       Goto(11),
       Call("led_off", <<Lit(Num(0))>>),
       SetAttr({"right_blinker_on"}, FALSE),
       Call("led_off", <<Lit(Num(1))>>),
       SetAttr({"left_blinker_on"}, FALSE),
       Return("static") >>

_gopigo3_command_blinkers ==
    << If({"left_blinker_on", "right_blinker_on"}, FALSE, 6),     \* line 191
       Call("led_on", <<Lit(Num(0))>>),                           \* line 192
       Call("led_on", <<Lit(Num(1))>>),                           \* line 193
       SetAttr({"left_blinker_on", "right_blinker_on"}, TRUE),    \* line 194
       Goto(9),                                                   \* line 195 (else)
       Call("led_off", <<Lit(Num(0))>>),                          \* line 196
       Call("led_off", <<Lit(Num(1))>>),                          \* line 197
       SetAttr({"left_blinker_on", "right_blinker_on"}, FALSE),   \* line 198
       Return("static") >>                                        \* line 200

_gopigo3_command_lefteye ==
    << If({"left_eye_on"}, FALSE, 5),               \* line 203
       Call("open_left_eye", <<>>),                 \* line 204
       SetAttr({"left_eye_on"}, TRUE),              \* line 205
       Goto(7),                                     \* line 206 (else)
       Call("close_left_eye", <<>>),                \* line 207
       SetAttr({"left_eye_on"}, FALSE),             \* line 208
       Return("static") >>                          \* line 210

\* A slip in the right eye toggle: the flag is not cleared when the eye closes.
righteye_flag_not_cleared ==
    << If({"right_eye_on"}, FALSE, 5),
       Call("open_right_eye", <<>>),
       SetAttr({"right_eye_on"}, TRUE),
       Goto(6),
       Call("close_right_eye", <<>>),
       Return("static") >>

_gopigo3_command_righteye ==
    << If({"right_eye_on"}, FALSE, 5),              \* line 213
       Call("open_right_eye", <<>>),                \* line 214
       SetAttr({"right_eye_on"}, TRUE),             \* line 215
       Goto(7),                                     \* line 216 (else)
       Call("close_right_eye", <<>>),               \* line 217
       SetAttr({"right_eye_on"}, FALSE),            \* line 218
       Return("static") >>                          \* line 220

\* A slip in the both-eyes toggle: the test is written for "both on".
eyes_test_inverted ==
    << If({"left_eye_on", "right_eye_on"}, TRUE, 5),
       Call("close_eyes", <<>>),
       SetAttr({"left_eye_on", "right_eye_on"}, FALSE),
       Goto(7),
       Call("open_eyes", <<>>),
       SetAttr({"left_eye_on", "right_eye_on"}, TRUE),
       Return("static") >>

_gopigo3_command_eyes ==
    << If({"left_eye_on", "right_eye_on"}, FALSE, 5),             \* line 223
       Call("open_eyes", <<>>),                                   \* line 224
       SetAttr({"left_eye_on", "right_eye_on"}, TRUE),            \* line 225
       Goto(7),                                                   \* line 226 (else)
       Call("close_eyes", <<>>),                                  \* line 227
       SetAttr({"left_eye_on", "right_eye_on"}, FALSE),           \* line 228
       Return("static") >>                                        \* line 230

\* A slip in the eye colour handler: an eye that is opened is also flagged on,
\* and both eyes are opened whatever their flags.
eyescolor_opens_both ==
    << RandInt("red", 0, 255),
       RandInt("green", 0, 255),
       RandInt("blue", 0, 255),
       Call("set_eye_color", <<Tuple(<<"red", "green", "blue">>)>>),
       Call("open_left_eye", <<>>),
       Call("open_right_eye", <<>>),
       Return("static") >>

\* A slip in the eye colour handler: re-opening an eye also sets its flag.
eyescolor_sets_flags ==
    << RandInt("red", 0, 255),
       RandInt("green", 0, 255),
       RandInt("blue", 0, 255),
       Call("set_eye_color", <<Tuple(<<"red", "green", "blue">>)>>),
       Call("open_left_eye", <<>>),
       SetAttr({"left_eye_on"}, TRUE),
       Call("open_right_eye", <<>>),
       SetAttr({"right_eye_on"}, TRUE),
       Return("static") >>

_gopigo3_command_eyescolor ==
    << RandInt("red", 0, 255),                                        \* line 233
       RandInt("green", 0, 255),                                      \* line 234
       RandInt("blue", 0, 255),                                       \* line 235
       Call("set_eye_color", <<Tuple(<<"red", "green", "blue">>)>>),  \* line 237
       If({"left_eye_on"}, TRUE, 7),                                  \* line 238
       Call("open_left_eye", <<>>),                                   \* line 239
       If({"right_eye_on"}, TRUE, 9),                                 \* line 240
       Call("open_right_eye", <<>>),                                  \* line 241
       Return("static") >>                                            \* line 243

\* A slip in the exit handler: the lights are "switched off" by clearing the flags.
exit_clears_flags ==
    << SetAttr(Flags, FALSE),
       Return("exit") >>

\* A slip in the exit handler: the robot is stopped before leaving.
exit_stops_first ==
    << Call("stop", <<>>),
       Return("exit") >>

_gopigo3_command_exit ==
    << Return("exit") >>                            \* line 246

\* Locals of _gopigo3_command_activatedance that are assigned once.
turn90Deg == 310
starDriveDiameter == 380
starTurnSpeed135 == 243
walkSpeed == 250
figure8speed == 320
\* starDriveDiameter / 2 * 1.141
starDriveHypotenuse == Frac(starDriveDiameter * 1141, 2000)

\* A slip in line 286 of the dance: 13.5 typed without its decimal point.  The
\* other statements are those of the dance below.
activatedance_decimal_point_lost ==
    <<
    Call("set_speed", <<Lit(Num(300))>>),
    Call("close_eyes", <<>>),
    Mark(0),
    Call("steer", <<Lit(Num(100)), Lit(Num(100))>>),
    Sleep(2, 1),
    Call("stop", <<>>),
    Sleep(2, 1),
    Call("steer", <<Lit(Num(100)), Lit(Num(100))>>),
    Sleep(2, 1),
    Call("stop", <<>>),
    Sleep(2, 1),
    Call("set_speed", <<Lit(Num(300))>>),
    Call("steer", <<Lit(Num(100)), Lit(Num(135))>>),
    Sleep(8, 1),
    Mark(16),
    Call("set_speed", <<Lit(Num(300))>>),
    Call("steer", <<Lit(Num(100)), Lit(Num(100))>>),
    Sleep(1, 2),
    Call("stop", <<>>),
    Sleep(1, 2),
    Call("steer", <<Lit(Num(100)), Lit(Num(100))>>),
    Sleep(1, 2),
    Call("stop", <<>>),
    Sleep(1, 2),
    Call("steer", <<Lit(Num(100)), Lit(Num(100))>>),
    Sleep(1, 2),
    Call("stop", <<>>),
    Sleep(1, 2),
    Call("steer", <<Lit(Num(100)), Lit(Num(100))>>),
    Sleep(1, 2),
    Call("stop", <<>>),
    Sleep(1, 2),
    Call("steer", <<Lit(Num(100)), Lit(Num(100))>>),
    Sleep(1, 2),
    Call("stop", <<>>),
    Sleep(1, 2),
    Call("steer", <<Lit(Num(100)), Lit(Num(100))>>),
    Sleep(1, 2),
    Call("stop", <<>>),
    Sleep(1, 2),
    Call("steer", <<Lit(Num(100)), Lit(Num(100))>>),
    Sleep(1, 2),
    Call("stop", <<>>),
    Sleep(1, 2),
    Call("steer", <<Lit(Num(100)), Lit(Num(100))>>),
    Sleep(1, 2),
    Call("stop", <<>>),
    Sleep(1, 2),
    Mark(24),
    Call("set_speed", <<Lit(Num(starDriveDiameter))>>),
    Call("steer", <<Lit(Num(100)), Lit(Num(100))>>),
    Sleep(2, 1),
    Call("set_speed", <<Lit(Num(starTurnSpeed135))>>),
    Call("steer", <<Lit(Num(-100)), Lit(Num(100))>>),
    Sleep(2, 1),
    Call("set_speed", <<Lit(starDriveHypotenuse)>>),
    Call("steer", <<Lit(Num(100)), Lit(Num(100))>>),
    Sleep(2, 1),
    Call("set_speed", <<Lit(Frac(starTurnSpeed135 * 90, 135))>>),
    Call("steer", <<Lit(Num(-100)), Lit(Num(100))>>),
    Sleep(2, 1),
    Call("set_speed", <<Lit(starDriveHypotenuse)>>),
    Call("steer", <<Lit(Num(100)), Lit(Num(100))>>),
    Sleep(2, 1),
    Call("set_speed", <<Lit(Frac(starTurnSpeed135 * 90, 135))>>),
    Call("steer", <<Lit(Num(-100)), Lit(Num(100))>>),
    Sleep(2, 1),
    Call("set_speed", <<Lit(starDriveHypotenuse)>>),
    Call("steer", <<Lit(Num(100)), Lit(Num(100))>>),
    Sleep(2, 1),
    Call("set_speed", <<Lit(Num(starTurnSpeed135))>>),
    Call("steer", <<Lit(Num(-100)), Lit(Num(100))>>),
    Sleep(2, 1),
    Call("set_speed", <<Lit(Num(starDriveDiameter))>>),
    Call("steer", <<Lit(Num(100)), Lit(Num(100))>>),
    Sleep(2, 1),
    Mark(42),
    Call("set_speed", <<Lit(Num(turn90Deg))>>),
    Call("steer", <<Lit(Num(100)), Lit(Num(-100))>>),
    Sleep(1, 1),
    Call("set_speed", <<Lit(Num(250))>>),
    Store("slowCounter", 12),
    While("slowCounter", 89),
    Call("set_speed", <<Times("slowCounter", 25)>>),
    Call("steer", <<Lit(Num(100)), Lit(Num(100))>>),
    Decr("slowCounter"),
    Sleep(1, 1),
    Goto(83),
    Mark(55),
    Call("set_speed", <<Lit(Num(turn90Deg))>>),
    Call("steer", <<Lit(Num(100)), Lit(Num(-100))>>),
    Sleep(1, 1),
    Call("set_speed", <<Lit(Num(300))>>),
    Call("steer", <<Lit(Num(100)), Lit(Num(100))>>),
    Sleep(1, 2),
    Call("stop", <<>>),
    Sleep(1, 2),
    Call("steer", <<Lit(Num(100)), Lit(Num(100))>>),
    Sleep(1, 2),
    Call("stop", <<>>),
    Sleep(1, 2),
    Call("steer", <<Lit(Num(100)), Lit(Num(100))>>),
    Sleep(1, 2),
    Call("stop", <<>>),
    Sleep(1, 2),
    Call("steer", <<Lit(Num(100)), Lit(Num(100))>>),
    Sleep(1, 2),
    Call("stop", <<>>),
    Sleep(1, 2),
    Call("steer", <<Lit(Num(100)), Lit(Num(100))>>),
    Sleep(1, 2),
    Call("stop", <<>>),
    Sleep(1, 2),
    Call("steer", <<Lit(Num(100)), Lit(Num(100))>>),
    Sleep(1, 2),
    Call("stop", <<>>),
    Sleep(1, 2),
    Call("steer", <<Lit(Num(100)), Lit(Num(100))>>),
    Sleep(1, 2),
    Call("stop", <<>>),
    Sleep(1, 2),
    Call("steer", <<Lit(Num(100)), Lit(Num(100))>>),
    Sleep(1, 2),
    Call("stop", <<>>),
    Sleep(1, 2),
    Mark(64),
    Call("set_speed", <<Lit(Num(turn90Deg))>>),
    Call("steer", <<Lit(Num(100)), Lit(Num(-100))>>),
    Sleep(1, 1),
    Call("set_speed", <<Lit(Num(walkSpeed))>>),
    Call("forward", <<>>),
    Sleep(2, 1),
    Call("steer", <<Lit(Num(100)), Lit(Num(-100))>>),
    Sleep(1, 2),
    Call("steer", <<Lit(Num(-100)), Lit(Num(100))>>),
    Sleep(1, 2),
    Call("set_speed", <<Lit(Num(walkSpeed))>>),
    Call("forward", <<>>),
    Sleep(2, 1),
    Mark(70),
    Call("steer", <<Lit(Num(100)), Lit(Num(-100))>>),
    Sleep(1, 2),
    Call("steer", <<Lit(Num(-100)), Lit(Num(100))>>),
    Sleep(1, 2),
    Call("set_speed", <<Lit(Num(turn90Deg))>>),
    Call("steer", <<Lit(Num(-100)), Lit(Num(100))>>),
    Sleep(1, 1),
    Call("set_speed", <<Lit(Num(walkSpeed))>>),
    Call("forward", <<>>),
    Sleep(2, 1),
    Call("steer", <<Lit(Num(100)), Lit(Num(-100))>>),
    Sleep(1, 2),
    Call("steer", <<Lit(Num(-100)), Lit(Num(100))>>),
    Sleep(1, 2),
    Call("set_speed", <<Lit(Num(walkSpeed))>>),
    Call("forward", <<>>),
    Sleep(2, 1),
    Call("steer", <<Lit(Num(100)), Lit(Num(-100))>>),
    Sleep(1, 2),
    Call("steer", <<Lit(Num(-100)), Lit(Num(100))>>),
    Sleep(1, 2),
    Mark(78),
    Call("set_speed", <<Lit(Num(turn90Deg))>>),
    Call("steer", <<Lit(Num(-100)), Lit(Num(100))>>),
    Sleep(1, 1),
    Call("set_speed", <<Lit(Num(walkSpeed))>>),
    Call("forward", <<>>),
    Sleep(1, 1),
    Call("open_eyes", <<>>),
    Call("blinker_on", <<Lit(Num(0))>>),
    Call("blinker_on", <<Lit(Num(1))>>),
    Call("set_speed", <<Lit(Num(walkSpeed))>>),
    Call("forward", <<>>),
    Sleep(1, 1),
    Call("steer", <<Lit(Num(100)), Lit(Num(-100))>>),
    Sleep(1, 2),
    Call("steer", <<Lit(Num(-100)), Lit(Num(100))>>),
    Sleep(1, 2),
    Call("set_speed", <<Lit(Num(walkSpeed))>>),
    Call("forward", <<>>),
    Sleep(2, 1),
    Call("steer", <<Lit(Num(100)), Lit(Num(-100))>>),
    Sleep(1, 2),
    Call("steer", <<Lit(Num(-100)), Lit(Num(100))>>),
    Sleep(1, 2),
    Call("set_speed", <<Lit(Num(turn90Deg))>>),
    Call("steer", <<Lit(Num(100)), Lit(Num(-100))>>),
    Sleep(1, 1),
    Mark(86),
    Call("set_speed", <<Lit(Num(walkSpeed))>>),
    Call("forward", <<>>),
    Sleep(4, 1),
    Call("set_speed", <<Lit(Num(turn90Deg))>>),
    Call("steer", <<Lit(Num(100)), Lit(Num(-100))>>),
    Sleep(1, 1),
    Call("set_speed", <<Lit(Num(walkSpeed))>>),
    Call("forward", <<>>),
    Sleep(3, 1),
    Mark(94),
    Call("set_speed", <<Lit(Num(figure8speed))>>),
    Call("steer", <<Lit(Num(100)), Lit(Num(20))>>),
    Sleep(4, 1),
    Call("set_speed", <<Lit(Num(figure8speed))>>),
    Call("steer", <<Lit(Num(20)), Lit(Num(100))>>),
    Sleep(4, 1),
    Mark(102),
    Call("set_speed", <<Lit(Num(turn90Deg))>>),
    Call("steer", <<Lit(Num(-100)), Lit(Num(100))>>),
    Sleep(8, 1),
    Call("set_speed", <<Lit(Num(turn90Deg))>>),
    Call("steer", <<Lit(Num(100)), Lit(Num(-100))>>),
    Sleep(2, 1),
    Mark(112),
    Call("set_speed", <<Lit(Num(figure8speed))>>),
    Call("steer", <<Lit(Num(20)), Lit(Num(100))>>),
    Sleep(4, 1),
    Call("set_speed", <<Lit(Num(figure8speed))>>),
    Call("steer", <<Lit(Num(100)), Lit(Num(20))>>),
    Sleep(4, 1),
    Mark(120),
    Call("set_speed", <<Lit(Num(turn90Deg))>>),
    Call("steer", <<Lit(Num(-100)), Lit(Num(100))>>),
    Call("set_right_eye_color", <<Lit(<<255, 0, 0>>)>>),
    Call("set_left_eye_color", <<Lit(<<0, 0, 255>>)>>),
    Call("close_eyes", <<>>),
    Call("open_eyes", <<>>),
    Sleep(1, 1),
    Call("set_right_eye_color", <<Lit(<<0, 255, 0>>)>>),
    Call("set_left_eye_color", <<Lit(<<255, 0, 0>>)>>),
    Call("close_eyes", <<>>),
    Call("open_eyes", <<>>),
    Sleep(1, 1),
    Call("set_right_eye_color", <<Lit(<<0, 0, 255>>)>>),
    Call("set_left_eye_color", <<Lit(<<0, 255, 0>>)>>),
    Call("close_eyes", <<>>),
    Call("open_eyes", <<>>),
    Sleep(1, 1),
    Call("set_right_eye_color", <<Lit(<<255, 255, 255>>)>>),
    Call("set_left_eye_color", <<Lit(<<255, 255, 255>>)>>),
    Call("close_eyes", <<>>),
    Call("open_eyes", <<>>),
    Sleep(1, 1),
    Call("set_speed", <<Lit(Num(turn90Deg))>>),
    Call("steer", <<Lit(Num(100)), Lit(Num(-100))>>),
    Call("set_right_eye_color", <<Lit(<<255, 0, 0>>)>>),
    Call("set_left_eye_color", <<Lit(<<0, 0, 255>>)>>),
    Call("close_eyes", <<>>),
    Call("open_eyes", <<>>),
    Sleep(1, 1),
    Call("set_right_eye_color", <<Lit(<<0, 255, 0>>)>>),
    Call("set_left_eye_color", <<Lit(<<255, 0, 0>>)>>),
    Call("close_eyes", <<>>),
    Call("open_eyes", <<>>),
    Sleep(1, 1),
    Call("set_right_eye_color", <<Lit(<<0, 0, 255>>)>>),
    Call("set_left_eye_color", <<Lit(<<0, 255, 0>>)>>),
    Call("close_eyes", <<>>),
    Call("open_eyes", <<>>),
    Sleep(1, 1),
    Call("set_right_eye_color", <<Lit(<<255, 255, 255>>)>>),
    Call("set_left_eye_color", <<Lit(<<255, 255, 255>>)>>),
    Call("close_eyes", <<>>),
    Call("open_eyes", <<>>),
    Sleep(1, 1),
    Call("close_eyes", <<>>),
    Call("blinker_off", <<Lit(Num(0))>>),
    Call("blinker_off", <<Lit(Num(1))>>),
    Call("stop", <<>>),
    Call("set_speed", <<Lit(Num(500))>>),
    Return("static")
    >>

_gopigo3_command_activatedance ==
    <<
    Call("set_speed", <<Lit(Num(300))>>),  \* 1: line 250
    Call("close_eyes", <<>>),  \* 2: line 252
    Mark(0),  \* 3: line 270
    Call("steer", <<Lit(Num(100)), Lit(Num(100))>>),  \* 4: line 271
    Sleep(2, 1),  \* 5: line 272
    Call("stop", <<>>),  \* 6: line 273
    Sleep(2, 1),  \* 7: line 274
    Call("steer", <<Lit(Num(100)), Lit(Num(100))>>),  \* 8: line 276
    Sleep(2, 1),  \* 9: line 277
    Call("stop", <<>>),  \* 10: line 278
    Sleep(2, 1),  \* 11: line 279
    Call("set_speed", <<Lit(Num(300))>>),  \* 12: line 285
    Call("steer", <<Lit(Num(100)), Lit(Frac(27, 2))>>),  \* 13: line 286
    Sleep(8, 1),  \* 14: line 287
    Mark(16),  \* 15: line 290
    Call("set_speed", <<Lit(Num(300))>>),  \* 16: line 291
    Call("steer", <<Lit(Num(100)), Lit(Num(100))>>),  \* 17: line 292
    Sleep(1, 2),  \* 18: line 293
    Call("stop", <<>>),  \* 19: line 294
    Sleep(1, 2),  \* 20: line 295
    Call("steer", <<Lit(Num(100)), Lit(Num(100))>>),  \* 21: line 296
    Sleep(1, 2),  \* 22: line 297
    Call("stop", <<>>),  \* 23: line 298
    Sleep(1, 2),  \* 24: line 299
    Call("steer", <<Lit(Num(100)), Lit(Num(100))>>),  \* 25: line 300
    Sleep(1, 2),  \* 26: line 301
    Call("stop", <<>>),  \* 27: line 302
    Sleep(1, 2),  \* 28: line 303
    Call("steer", <<Lit(Num(100)), Lit(Num(100))>>),  \* 29: line 304
    Sleep(1, 2),  \* 30: line 305
    Call("stop", <<>>),  \* 31: line 306
    Sleep(1, 2),  \* 32: line 307
    Call("steer", <<Lit(Num(100)), Lit(Num(100))>>),  \* 33: line 309
    Sleep(1, 2),  \* 34: line 310
    Call("stop", <<>>),  \* 35: line 311
    Sleep(1, 2),  \* 36: line 312
    Call("steer", <<Lit(Num(100)), Lit(Num(100))>>),  \* 37: line 313
    Sleep(1, 2),  \* 38: line 314
    Call("stop", <<>>),  \* 39: line 315
    Sleep(1, 2),  \* 40: line 316
    Call("steer", <<Lit(Num(100)), Lit(Num(100))>>),  \* 41: line 317
    Sleep(1, 2),  \* 42: line 318
    Call("stop", <<>>),  \* 43: line 319
    Sleep(1, 2),  \* 44: line 320
    Call("steer", <<Lit(Num(100)), Lit(Num(100))>>),  \* 45: line 321
    Sleep(1, 2),  \* 46: line 322
    Call("stop", <<>>),  \* 47: line 323
    Sleep(1, 2),  \* 48: line 324
    Mark(24),  \* 49: line 326
    Call("set_speed", <<Lit(Num(starDriveDiameter))>>),  \* 50: line 332
    Call("steer", <<Lit(Num(100)), Lit(Num(100))>>),  \* 51: line 333
    Sleep(2, 1),  \* 52: line 334
    Call("set_speed", <<Lit(Num(starTurnSpeed135))>>),  \* 53: line 335
    Call("steer", <<Lit(Num(-100)), Lit(Num(100))>>),  \* 54: line 336
    Sleep(2, 1),  \* 55: line 337
    Call("set_speed", <<Lit(starDriveHypotenuse)>>),  \* 56: line 339
    Call("steer", <<Lit(Num(100)), Lit(Num(100))>>),  \* 57: line 340
    Sleep(2, 1),  \* 58: line 341
    Call("set_speed", <<Lit(Frac(starTurnSpeed135 * 90, 135))>>),  \* 59: line 342
    Call("steer", <<Lit(Num(-100)), Lit(Num(100))>>),  \* 60: line 343
    Sleep(2, 1),  \* 61: line 344
    Call("set_speed", <<Lit(starDriveHypotenuse)>>),  \* 62: line 346
    Call("steer", <<Lit(Num(100)), Lit(Num(100))>>),  \* 63: line 347
    Sleep(2, 1),  \* 64: line 348
    Call("set_speed", <<Lit(Frac(starTurnSpeed135 * 90, 135))>>),  \* 65: line 349
    Call("steer", <<Lit(Num(-100)), Lit(Num(100))>>),  \* 66: line 350
    Sleep(2, 1),  \* 67: line 351
    Call("set_speed", <<Lit(starDriveHypotenuse)>>),  \* 68: line 353
    Call("steer", <<Lit(Num(100)), Lit(Num(100))>>),  \* 69: line 354
    Sleep(2, 1),  \* 70: line 355
    Call("set_speed", <<Lit(Num(starTurnSpeed135))>>),  \* 71: line 356
    Call("steer", <<Lit(Num(-100)), Lit(Num(100))>>),  \* 72: line 357
    Sleep(2, 1),  \* 73: line 358
    Call("set_speed", <<Lit(Num(starDriveDiameter))>>),  \* 74: line 360
    Call("steer", <<Lit(Num(100)), Lit(Num(100))>>),  \* 75: line 361
    Sleep(2, 1),  \* 76: line 362
    Mark(42),  \* 77: line 364
    Call("set_speed", <<Lit(Num(turn90Deg))>>),  \* 78: line 365
    Call("steer", <<Lit(Num(100)), Lit(Num(-100))>>),  \* 79: line 366
    Sleep(1, 1),  \* 80: line 367
    Call("set_speed", <<Lit(Num(250))>>),  \* 81: line 369
    Store("slowCounter", 12),  \* 82: line 370
    While("slowCounter", 89),  \* 83: line 371
    Call("set_speed", <<Times("slowCounter", 25)>>),  \* 84: line 372
    Call("steer", <<Lit(Num(100)), Lit(Num(100))>>),  \* 85: line 373
    Decr("slowCounter"),  \* 86: line 374
    Sleep(1, 1),  \* 87: line 375
    Goto(83),  \* 88: line 371
    Mark(55),  \* 89: line 377
    Call("set_speed", <<Lit(Num(turn90Deg))>>),  \* 90: line 378
    Call("steer", <<Lit(Num(100)), Lit(Num(-100))>>),  \* 91: line 379
    Sleep(1, 1),  \* 92: line 380
    Call("set_speed", <<Lit(Num(300))>>),  \* 93: line 382
    Call("steer", <<Lit(Num(100)), Lit(Num(100))>>),  \* 94: line 383
    Sleep(1, 2),  \* 95: line 384
    Call("stop", <<>>),  \* 96: line 385
    Sleep(1, 2),  \* 97: line 386
    Call("steer", <<Lit(Num(100)), Lit(Num(100))>>),  \* 98: line 387
    Sleep(1, 2),  \* 99: line 388
    Call("stop", <<>>),  \* 100: line 389
    Sleep(1, 2),  \* 101: line 390
    Call("steer", <<Lit(Num(100)), Lit(Num(100))>>),  \* 102: line 391
    Sleep(1, 2),  \* 103: line 392
    Call("stop", <<>>),  \* 104: line 393
    Sleep(1, 2),  \* 105: line 394
    Call("steer", <<Lit(Num(100)), Lit(Num(100))>>),  \* 106: line 395
    Sleep(1, 2),  \* 107: line 396
    Call("stop", <<>>),  \* 108: line 397
    Sleep(1, 2),  \* 109: line 398
    Call("steer", <<Lit(Num(100)), Lit(Num(100))>>),  \* 110: line 400
    Sleep(1, 2),  \* 111: line 401
    Call("stop", <<>>),  \* 112: line 402
    Sleep(1, 2),  \* 113: line 403
    Call("steer", <<Lit(Num(100)), Lit(Num(100))>>),  \* 114: line 404
    Sleep(1, 2),  \* 115: line 405
    Call("stop", <<>>),  \* 116: line 406
    Sleep(1, 2),  \* 117: line 407
    Call("steer", <<Lit(Num(100)), Lit(Num(100))>>),  \* 118: line 408
    Sleep(1, 2),  \* 119: line 409
    Call("stop", <<>>),  \* 120: line 410
    Sleep(1, 2),  \* 121: line 411
    Call("steer", <<Lit(Num(100)), Lit(Num(100))>>),  \* 122: line 412
    Sleep(1, 2),  \* 123: line 413
    Call("stop", <<>>),  \* 124: line 414
    Sleep(1, 2),  \* 125: line 415
    Mark(64),  \* 126: line 417
    Call("set_speed", <<Lit(Num(turn90Deg))>>),  \* 127: line 419
    Call("steer", <<Lit(Num(100)), Lit(Num(-100))>>),  \* 128: line 420
    Sleep(1, 1),  \* 129: line 421
    Call("set_speed", <<Lit(Num(walkSpeed))>>),  \* 130: line 423
    Call("forward", <<>>),  \* 131: line 424
    Sleep(2, 1),  \* 132: line 425
    Call("steer", <<Lit(Num(100)), Lit(Num(-100))>>),  \* 133: line 427
    Sleep(1, 2),  \* 134: line 428
    Call("steer", <<Lit(Num(-100)), Lit(Num(100))>>),  \* 135: line 429
    Sleep(1, 2),  \* 136: line 430
    Call("set_speed", <<Lit(Num(walkSpeed))>>),  \* 137: line 432
    Call("forward", <<>>),  \* 138: line 433
    Sleep(2, 1),  \* 139: line 434
    Mark(70),  \* 140: line 436
    Call("steer", <<Lit(Num(100)), Lit(Num(-100))>>),  \* 141: line 437
    Sleep(1, 2),  \* 142: line 438
    Call("steer", <<Lit(Num(-100)), Lit(Num(100))>>),  \* 143: line 439
    Sleep(1, 2),  \* 144: line 440
    Call("set_speed", <<Lit(Num(turn90Deg))>>),  \* 145: line 442
    Call("steer", <<Lit(Num(-100)), Lit(Num(100))>>),  \* 146: line 443
    Sleep(1, 1),  \* 147: line 444
    Call("set_speed", <<Lit(Num(walkSpeed))>>),  \* 148: line 446
    Call("forward", <<>>),  \* 149: line 447
    Sleep(2, 1),  \* 150: line 448
    Call("steer", <<Lit(Num(100)), Lit(Num(-100))>>),  \* 151: line 450
    Sleep(1, 2),  \* 152: line 451
    Call("steer", <<Lit(Num(-100)), Lit(Num(100))>>),  \* 153: line 452
    Sleep(1, 2),  \* 154: line 453
    Call("set_speed", <<Lit(Num(walkSpeed))>>),  \* 155: line 455
    Call("forward", <<>>),  \* 156: line 456
    Sleep(2, 1),  \* 157: line 457
    Call("steer", <<Lit(Num(100)), Lit(Num(-100))>>),  \* 158: line 459
    Sleep(1, 2),  \* 159: line 460
    Call("steer", <<Lit(Num(-100)), Lit(Num(100))>>),  \* 160: line 461
    Sleep(1, 2),  \* 161: line 462
    Mark(78),  \* 162: line 464
    Call("set_speed", <<Lit(Num(turn90Deg))>>),  \* 163: line 466
    Call("steer", <<Lit(Num(-100)), Lit(Num(100))>>),  \* 164: line 467
    Sleep(1, 1),  \* 165: line 468
    Call("set_speed", <<Lit(Num(walkSpeed))>>),  \* 166: line 470
    Call("forward", <<>>),  \* 167: line 471
    Sleep(1, 1),  \* 168: line 472
    Call("open_eyes", <<>>),  \* 169: line 474
    Call("blinker_on", <<Lit(Num(0))>>),  \* 170: line 475
    Call("blinker_on", <<Lit(Num(1))>>),  \* 171: line 476
    Call("set_speed", <<Lit(Num(walkSpeed))>>),  \* 172: line 477
    Call("forward", <<>>),  \* 173: line 478
    Sleep(1, 1),  \* 174: line 479
    Call("steer", <<Lit(Num(100)), Lit(Num(-100))>>),  \* 175: line 481
    Sleep(1, 2),  \* 176: line 482
    Call("steer", <<Lit(Num(-100)), Lit(Num(100))>>),  \* 177: line 483
    Sleep(1, 2),  \* 178: line 484
    Call("set_speed", <<Lit(Num(walkSpeed))>>),  \* 179: line 486
    Call("forward", <<>>),  \* 180: line 487
    Sleep(2, 1),  \* 181: line 488
    Call("steer", <<Lit(Num(100)), Lit(Num(-100))>>),  \* 182: line 490
    Sleep(1, 2),  \* 183: line 491
    Call("steer", <<Lit(Num(-100)), Lit(Num(100))>>),  \* 184: line 492
    Sleep(1, 2),  \* 185: line 493
    Call("set_speed", <<Lit(Num(turn90Deg))>>),  \* 186: line 495
    Call("steer", <<Lit(Num(100)), Lit(Num(-100))>>),  \* 187: line 496
    Sleep(1, 1),  \* 188: line 497
    Mark(86),  \* 189: line 499
    Call("set_speed", <<Lit(Num(walkSpeed))>>),  \* 190: line 500
    Call("forward", <<>>),  \* 191: line 501
    Sleep(4, 1),  \* 192: line 502
    Call("set_speed", <<Lit(Num(turn90Deg))>>),  \* 193: line 503
    Call("steer", <<Lit(Num(100)), Lit(Num(-100))>>),  \* 194: line 504
    Sleep(1, 1),  \* 195: line 505
    Call("set_speed", <<Lit(Num(walkSpeed))>>),  \* 196: line 506
    Call("forward", <<>>),  \* 197: line 507
    Sleep(3, 1),  \* 198: line 508
    Mark(94),  \* 199: line 510
    Call("set_speed", <<Lit(Num(figure8speed))>>),  \* 200: line 515
    Call("steer", <<Lit(Num(100)), Lit(Num(20))>>),  \* 201: line 516
    Sleep(4, 1),  \* 202: line 517
    Call("set_speed", <<Lit(Num(figure8speed))>>),  \* 203: line 518
    Call("steer", <<Lit(Num(20)), Lit(Num(100))>>),  \* 204: line 519
    Sleep(4, 1),  \* 205: line 520
    Mark(102),  \* 206: line 522
    Call("set_speed", <<Lit(Num(turn90Deg))>>),  \* 207: line 523
    Call("steer", <<Lit(Num(-100)), Lit(Num(100))>>),  \* 208: line 524
    Sleep(8, 1),  \* 209: line 525
    Call("set_speed", <<Lit(Num(turn90Deg))>>),  \* 210: line 527
    Call("steer", <<Lit(Num(100)), Lit(Num(-100))>>),  \* 211: line 528
    Sleep(2, 1),  \* 212: line 529
    Mark(112),  \* 213: line 531
    Call("set_speed", <<Lit(Num(figure8speed))>>),  \* 214: line 532
    Call("steer", <<Lit(Num(20)), Lit(Num(100))>>),  \* 215: line 533
    Sleep(4, 1),  \* 216: line 534
    Call("set_speed", <<Lit(Num(figure8speed))>>),  \* 217: line 535
    Call("steer", <<Lit(Num(100)), Lit(Num(20))>>),  \* 218: line 536
    Sleep(4, 1),  \* 219: line 537
    Mark(120),  \* 220: line 539
    Call("set_speed", <<Lit(Num(turn90Deg))>>),  \* 221: line 540
    Call("steer", <<Lit(Num(-100)), Lit(Num(100))>>),  \* 222: line 541
    Call("set_right_eye_color", <<Lit(<<255, 0, 0>>)>>),  \* 223: line 544
    Call("set_left_eye_color", <<Lit(<<0, 0, 255>>)>>),  \* 224: line 545
    Call("close_eyes", <<>>),  \* 225: line 546
    Call("open_eyes", <<>>),  \* 226: line 547
    Sleep(1, 1),  \* 227: line 548
    Call("set_right_eye_color", <<Lit(<<0, 255, 0>>)>>),  \* 228: line 549
    Call("set_left_eye_color", <<Lit(<<255, 0, 0>>)>>),  \* 229: line 550
    Call("close_eyes", <<>>),  \* 230: line 551
    Call("open_eyes", <<>>),  \* 231: line 552
    Sleep(1, 1),  \* 232: line 553
    Call("set_right_eye_color", <<Lit(<<0, 0, 255>>)>>),  \* 233: line 554
    Call("set_left_eye_color", <<Lit(<<0, 255, 0>>)>>),  \* 234: line 555
    Call("close_eyes", <<>>),  \* 235: line 556
    Call("open_eyes", <<>>),  \* 236: line 557
    Sleep(1, 1),  \* 237: line 558
    Call("set_right_eye_color", <<Lit(<<255, 255, 255>>)>>),  \* 238: line 559
    Call("set_left_eye_color", <<Lit(<<255, 255, 255>>)>>),  \* 239: line 560
    Call("close_eyes", <<>>),  \* 240: line 561
    Call("open_eyes", <<>>),  \* 241: line 562
    Sleep(1, 1),  \* 242: line 563
    Call("set_speed", <<Lit(Num(turn90Deg))>>),  \* 243: line 566
    Call("steer", <<Lit(Num(100)), Lit(Num(-100))>>),  \* 244: line 567
    Call("set_right_eye_color", <<Lit(<<255, 0, 0>>)>>),  \* 245: line 570
    Call("set_left_eye_color", <<Lit(<<0, 0, 255>>)>>),  \* 246: line 571
    Call("close_eyes", <<>>),  \* 247: line 572
    Call("open_eyes", <<>>),  \* 248: line 573
    Sleep(1, 1),  \* 249: line 574
    Call("set_right_eye_color", <<Lit(<<0, 255, 0>>)>>),  \* 250: line 575
    Call("set_left_eye_color", <<Lit(<<255, 0, 0>>)>>),  \* 251: line 576
    Call("close_eyes", <<>>),  \* 252: line 577
    Call("open_eyes", <<>>),  \* 253: line 578
    Sleep(1, 1),  \* 254: line 579
    Call("set_right_eye_color", <<Lit(<<0, 0, 255>>)>>),  \* 255: line 580
    Call("set_left_eye_color", <<Lit(<<0, 255, 0>>)>>),  \* 256: line 581
    Call("close_eyes", <<>>),  \* 257: line 582
    Call("open_eyes", <<>>),  \* 258: line 583
    Sleep(1, 1),  \* 259: line 584
    Call("set_right_eye_color", <<Lit(<<255, 255, 255>>)>>),  \* 260: line 585
    Call("set_left_eye_color", <<Lit(<<255, 255, 255>>)>>),  \* 261: line 586
    Call("close_eyes", <<>>),  \* 262: line 587
    Call("open_eyes", <<>>),  \* 263: line 588
    Sleep(1, 1),  \* 264: line 589
    Call("close_eyes", <<>>),  \* 265: line 593
    Call("blinker_off", <<Lit(Num(0))>>),  \* 266: line 594
    Call("blinker_off", <<Lit(Num(1))>>),  \* 267: line 595
    Call("stop", <<>>),  \* 268: line 597
    Call("set_speed", <<Lit(Num(500))>>),  \* 269: line 598
    Return("static")   \* 270: line 599
    >>

\* Local of _gopigo3_command_deliveraltoids.
turn90 == 84

\* A slip in the delivery route: two legs exchanged.
deliveraltoids_legs_swapped ==
    << Call("set_speed", <<Lit(Num(300))>>),
       Call("init_servo", <<>>),
       Call("turn_degrees", <<Lit(Num(turn90))>>),
       Call("drive_inches", <<Lit(Num(49))>>),
       Call("drive_inches", <<Lit(Num(76))>>),
       Call("turn_degrees", <<Lit(Num(turn90 - 2))>>),
       Call("drive_inches", <<Lit(Num(40))>>),
       Call("turn_degrees", <<Lit(Num(turn90 * 2))>>),
       Call("drive_inches", <<Lit(Num(-36))>>),
       Call("set_speed", <<Lit(Num(100))>>),
       Call("drive_inches", <<Lit(Num(-48))>>),
       Call("set_speed", <<Lit(Num(300))>>),
       Call("turn_degrees", <<Lit(Num(-turn90 + 2))>>),
       Call("drive_inches", <<Lit(Num(80))>>),
       Call("turn_degrees", <<Lit(Num(-turn90))>>),
       Call("stop", <<>>),
       Return("static") >>

_gopigo3_command_deliveraltoids ==
    << Call("set_speed", <<Lit(Num(300))>>),             \* line 614
       Call("init_servo", <<>>),                         \* line 616
       Call("drive_inches", <<Lit(Num(49))>>),           \* line 628
       Call("turn_degrees", <<Lit(Num(turn90))>>),       \* line 629
       Call("drive_inches", <<Lit(Num(76))>>),           \* line 632
       Call("turn_degrees", <<Lit(Num(turn90 - 2))>>),   \* line 633
       Call("drive_inches", <<Lit(Num(40))>>),           \* line 636
       Call("turn_degrees", <<Lit(Num(turn90 * 2))>>),   \* line 638
       Call("drive_inches", <<Lit(Num(-36))>>),          \* line 639
       Call("set_speed", <<Lit(Num(100))>>),             \* line 642
       Call("drive_inches", <<Lit(Num(-48))>>),          \* line 643
       Call("set_speed", <<Lit(Num(300))>>),             \* line 644
       Call("turn_degrees", <<Lit(Num(-turn90 + 2))>>),  \* line 645
       Call("drive_inches", <<Lit(Num(80))>>),           \* line 648
       Call("turn_degrees", <<Lit(Num(-turn90))>>),      \* line 649
       Call("stop", <<>>),                               \* line 651
       Return("static") >>                               \* line 652

----------------------------------------------------------------------------
(* executeKeyboardJob *)

\* A slip in line 90: the prefix misspelt, so that no method name is ever built.
method_prefix_misspelt == "_gopigo_command_"

method_prefix == "_gopigo3_command_"

\* The methods getattr can find on the object under the handler prefix.
Class ==
    "_gopigo3_command_forward" :> _gopigo3_command_forward @@
    "_gopigo3_command_backward" :> _gopigo3_command_backward @@
    "_gopigo3_command_left" :> _gopigo3_command_left @@
    "_gopigo3_command_right" :> _gopigo3_command_right @@
    "_gopigo3_command_stop" :> _gopigo3_command_stop @@
    "_gopigo3_command_forward10cm" :> _gopigo3_command_forward10cm @@
    "_gopigo3_command_forward10in" :> _gopigo3_command_forward10in @@
    "_gopigo3_command_forwardturn" :> _gopigo3_command_forwardturn @@
    "_gopigo3_command_leftblinker" :> _gopigo3_command_leftblinker @@
    "_gopigo3_command_rightblinker" :> _gopigo3_command_rightblinker @@
    "_gopigo3_command_blinkers" :> _gopigo3_command_blinkers @@
    "_gopigo3_command_lefteye" :> _gopigo3_command_lefteye @@
    "_gopigo3_command_righteye" :> _gopigo3_command_righteye @@
    "_gopigo3_command_eyes" :> _gopigo3_command_eyes @@
    "_gopigo3_command_eyescolor" :> _gopigo3_command_eyescolor @@
    "_gopigo3_command_exit" :> _gopigo3_command_exit @@
    "_gopigo3_command_activatedance" :> _gopigo3_command_activatedance @@
    "_gopigo3_command_deliveraltoids" :> _gopigo3_command_deliveraltoids

\* lambda : "nothing", the default given to getattr
lambda == << Return("nothing") >>

\* getattr(self, name, default)
getattr(name, default) == IF name \in DOMAIN Class THEN Class[name] ELSE default

\* A slip in lines 93-94: an unbound key falls back to the stop handler.
method_suffix_falls_back_to_stop(obj, key) ==
    IF key \in DOMAIN obj.keybindings
    THEN obj.keybindings[key][KEY_FUNC_SUFFIX + 1]
    ELSE "stop"

\* Lines 91-94: the suffix bound to the key, or "" on KeyError.
method_suffix(obj, key) ==
    IF key \in DOMAIN obj.keybindings
    THEN obj.keybindings[key][KEY_FUNC_SUFFIX + 1]
    ELSE ""

\* The statements of the method that line 97 resolves and line 99 calls.
method == getattr(method_name, lambda)

\* A slip: the failing call wrapped in try/except/pass, so the method resumes.
ExceptTarget_resumes(name, i) == i + 1

\* Where control goes when statement i of the running method raises: no try
\* statement encloses any statement of a handler, and the try of lines 91-94 does
\* not enclose the call of line 99, so the exception leaves executeKeyboardJob (0).
ExceptTarget(name, i) == 0

NoLocals == [slowCounter |-> 0, red |-> 0, green |-> 0, blue |-> 0]

\* Keys that the keyboard can send and __init__ binds to nothing.
OtherKeys == {"h", "x"}

Keys == DOMAIN keybindings \cup OtherKeys

executeKeyboardJob(key) ==
    /\ pc = 0
    /\ argument' = key
    /\ method_name' = method_prefix \o method_suffix(self, key)
    /\ pc' = 1
    /\ locals' = NoLocals
    /\ calls' = <<>>
    /\ slept' = 0
    /\ result' = "none"
    /\ entry' = FlagsOf(self)
    /\ before' = [same |-> argument = key /\ result \notin {"none", "raised"},
                  flags |-> IF argument = key /\ result \notin {"none", "raised"}
                            THEN entry ELSE FlagsOf(self)]
    /\ printed' = <<>>
    /\ UNCHANGED <<self, outputs>>

Running == pc > 0 /\ pc <= Len(method)

\* The lights after a driver call has returned.  The handlers switch the left
\* blinker as LED 1 and the right blinker as LED 0 (lines 170-188), the eyes one
\* by one or both at once; the dance switches the LEDs through blinker_on and
\* blinker_off.  Every other call leaves the lights as they are.
Switched(out, name, args) ==
    LET led == IF args = <<Num(1)>> THEN {"left_blinker"}
               ELSE IF args = <<Num(0)>> THEN {"right_blinker"} ELSE {}
        on == CASE name \in {"led_on", "blinker_on"} -> led
                [] name = "open_left_eye" -> {"left_eye"}
                [] name = "open_right_eye" -> {"right_eye"}
                [] name = "open_eyes" -> {"left_eye", "right_eye"}
                [] OTHER -> {}
        off == CASE name \in {"led_off", "blinker_off"} -> led
                 [] name = "close_left_eye" -> {"left_eye"}
                 [] name = "close_right_eye" -> {"right_eye"}
                 [] name = "close_eyes" -> {"left_eye", "right_eye"}
                 [] OTHER -> {}
    IN  [o \in DOMAIN out |-> IF o \in on THEN TRUE ELSE IF o \in off THEN FALSE ELSE out[o]]

ins == method[pc]

\* A driver call that returns.
StepCall ==
    /\ Running /\ ins.op = "call"
    /\ calls' = Append(calls, [name |-> ins.name,
                               args |-> [i \in 1..Len(ins.args) |-> Eval(ins.args[i], locals)],
                               ok |-> TRUE])
    /\ pc' = pc + 1
    /\ outputs' = Switched(outputs, ins.name, [i \in 1..Len(ins.args) |-> Eval(ins.args[i], locals)])
    /\ UNCHANGED <<self, argument, method_name, locals, slept, result, entry, before, printed>>

\* A driver call that raises.
StepCallRaises ==
    /\ Running /\ ins.op = "call"
    /\ calls' = Append(calls, [name |-> ins.name,
                               args |-> [i \in 1..Len(ins.args) |-> Eval(ins.args[i], locals)],
                               ok |-> FALSE])
    /\ pc' = ExceptTarget(method_name, pc)
    /\ result' = IF ExceptTarget(method_name, pc) = 0 THEN "raised" ELSE result
    /\ UNCHANGED <<self, argument, method_name, locals, slept, entry, before, printed, outputs>>

StepSleep ==
    /\ Running /\ ins.op = "sleep"
    /\ slept' = slept + (2 * ins.n) \div ins.d
    /\ pc' = pc + 1
    /\ UNCHANGED <<self, argument, method_name, locals, calls, result, entry, before, printed, outputs>>

StepMark ==
    /\ Running /\ ins.op = "mark"
    /\ pc' = pc + 1
    /\ UNCHANGED <<self, argument, method_name, locals, calls, slept, result, entry, before, printed, outputs>>

StepStore ==
    /\ Running /\ ins.op = "store"
    /\ locals' = [locals EXCEPT ![ins.var] = ins.value]
    /\ pc' = pc + 1
    /\ UNCHANGED <<self, argument, method_name, calls, slept, result, entry, before, printed, outputs>>

StepRandInt ==
    /\ Running /\ ins.op = "randint"
    /\ \E v \in randint(ins.lo, ins.hi) : locals' = [locals EXCEPT ![ins.var] = v]
    /\ pc' = pc + 1
    /\ UNCHANGED <<self, argument, method_name, calls, slept, result, entry, before, printed, outputs>>

StepDecr ==
    /\ Running /\ ins.op = "decr"
    /\ locals' = [locals EXCEPT ![ins.var] = @ - 1]
    /\ pc' = pc + 1
    /\ UNCHANGED <<self, argument, method_name, calls, slept, result, entry, before, printed, outputs>>

StepWhile_enters_at_zero ==
    /\ Running /\ ins.op = "while"
    /\ pc' = IF locals[ins.var] >= 0 THEN pc + 1 ELSE ins.exit
    /\ UNCHANGED <<self, argument, method_name, locals, calls, slept, result, entry, before, printed, outputs>>

StepWhile ==
    /\ Running /\ ins.op = "while"
    /\ pc' = IF locals[ins.var] > 0 THEN pc + 1 ELSE ins.exit
    /\ UNCHANGED <<self, argument, method_name, locals, calls, slept, result, entry, before, printed, outputs>>

StepGoto ==
    /\ Running /\ ins.op = "goto"
    /\ pc' = ins.target
    /\ UNCHANGED <<self, argument, method_name, locals, calls, slept, result, entry, before, printed, outputs>>

StepIf ==
    /\ Running /\ ins.op = "if"
    /\ pc' = IF \A a \in ins.attrs : self[a] = ins.value THEN pc + 1 ELSE ins.else
    /\ UNCHANGED <<self, argument, method_name, locals, calls, slept, result, entry, before, printed, outputs>>

StepSetAttr ==
    /\ Running /\ ins.op = "setattr"
    /\ self' = [a \in DOMAIN self |-> IF a \in ins.attrs THEN ins.value ELSE self[a]]
    /\ pc' = pc + 1
    /\ UNCHANGED <<argument, method_name, locals, calls, slept, result, entry, before, printed, outputs>>

StepReturn ==
    /\ Running /\ ins.op = "return"
    /\ result' = ins.value
    /\ pc' = 0
    /\ UNCHANGED <<self, argument, method_name, locals, calls, slept, entry, before, printed, outputs>>

----------------------------------------------------------------------------
(* drawMenu *)

\* print("\r[key {:8}] :  {}".format(key, description)): the key and the
\* description it is printed with.
MenuLine(key, description) == <<"[key]", key, description>>

\* The line printed by the except KeyError clause (line 128).
MenuError ==
    <<"Error: Keys found GoPiGo3WithKeyboard.order_of_keys don't match with those in GoPiGo3WithKeyboard.keybindings.">>

\* Lines 124-128: one line per key of order_of_keys, in order; the first key that
\* keybindings lacks raises KeyError, which ends the loop and prints the error.
MenuLines(obj) ==
    LET order == obj.order_of_keys
        kb == obj.keybindings
        bad == {i \in 1..Len(order) : order[i] \notin DOMAIN kb}
        shown == IF bad = {} THEN Len(order)
                 ELSE (CHOOSE i \in bad : \A j \in bad : i <= j) - 1
    IN  [i \in 1..shown |-> MenuLine(order[i], kb[order[i]][KEY_DESCRIPTION + 1])]
        \o (IF bad # {} THEN <<MenuError>> ELSE <<>>)

drawMenu ==
    /\ pc = 0
    /\ printed' = MenuLines(self)
    /\ UNCHANGED <<self, argument, method_name, pc, locals, calls, slept, result, entry, before, outputs>>

----------------------------------------------------------------------------
(* Specifications *)

InitObject(obj) ==
    /\ self = obj
    /\ argument = ""
    /\ method_name = ""
    /\ pc = 0
    /\ locals = NoLocals
    /\ calls = <<>>
    /\ slept = 0
    /\ result = "none"
    /\ entry = FlagsOf(obj)
    /\ before = [same |-> FALSE, flags |-> FlagsOf(obj)]
    /\ printed = <<>>
    /\ outputs = [left_blinker |-> FALSE, right_blinker |-> FALSE,
                  left_eye |-> FALSE, right_eye |-> FALSE]

InitWith(kb) == InitObject(NewObject(kb))

Init == InitWith(keybindings)

Next ==
    \/ \E key \in Keys : executeKeyboardJob(key)
    \/ StepCall
    \/ StepCallRaises
    \/ StepSleep
    \/ StepMark
    \/ StepStore
    \/ StepRandInt
    \/ StepDecr
    \/ StepWhile
    \/ StepGoto
    \/ StepIf
    \/ StepSetAttr
    \/ StepReturn
    \/ drawMenu

Spec == Init /\ [][Next]_vars

\* keybindings is a plain instance attribute: the program that embeds the class
\* can rebind a key to a handler suffix that names no method, or bind a new key
\* so.  SpecDefect starts from the constructed object or from one with such a
\* defective binding.
DefectiveKeybindings ==
    { [keybindings EXCEPT !["5"] = <<"Do a little boogie woogie", "dance">>],
      keybindings @@ ("h" :> <<"Sound the horn", "horn">>) }

InitDefect == \E kb \in {keybindings} \cup DefectiveKeybindings : InitWith(kb)

SpecDefect == InitDefect /\ [][Next]_vars

\* The same program on a driver whose calls always return.
NextReliable ==
    \/ \E key \in Keys : executeKeyboardJob(key)
    \/ StepCall
    \/ StepSleep
    \/ StepMark
    \/ StepStore
    \/ StepRandInt
    \/ StepDecr
    \/ StepWhile
    \/ StepGoto
    \/ StepIf
    \/ StepSetAttr
    \/ StepReturn
    \/ drawMenu

SpecReliable == Init /\ [][NextReliable]_vars

\* A handler is an ordinary synchronous method: once executeKeyboardJob has
\* called it, the interpreter executes its next statement for as long as one
\* is left.  Nothing obliges the control loop to read another key or to redraw
\* the menu, so only the statements of the running handler are fair.
RunHandler ==
    \/ StepCall
    \/ StepSleep
    \/ StepMark
    \/ StepStore
    \/ StepRandInt
    \/ StepDecr
    \/ StepWhile
    \/ StepGoto
    \/ StepIf
    \/ StepSetAttr
    \/ StepReturn

SpecRunToCompletion == Init /\ [][NextReliable]_vars /\ WF_vars(RunHandler)

\* order_of_keys is a plain instance attribute too.  SpecMenu starts from the
\* constructed object, from one whose order list lacks a bound key ("5"), or
\* from one whose order list holds a key that is bound to nothing ("h").
OrderVariants ==
    { order_of_keys,
      SelectSeq(order_of_keys, LAMBDA k : k # "5"),
      order_of_keys \o <<"h">> }

InitMenu ==
    \E order \in OrderVariants :
        InitObject([NewObject(keybindings) EXCEPT !.order_of_keys = order])

SpecMenu == InitMenu /\ [][Next]_vars

----------------------------------------------------------------------------
(* Properties *)

\* A call of executeKeyboardJob has run and handed a value back to its caller.
Returned == pc = 0 /\ result \notin {"none", "raised"}

\* A call of executeKeyboardJob has ended with an exception reaching its caller.
Raised == pc = 0 /\ result = "raised"

Issued(name, args) == [name |-> name, args |-> args, ok |-> TRUE]

ToggleKeys == {"1", "2", "3", "8", "9", "0"}

\* The flags each toggle key is there to switch.
Controls(key) ==
    CASE key = "1" -> {"left_blinker_on"}
      [] key = "2" -> {"right_blinker_on"}
      [] key = "3" -> {"left_blinker_on", "right_blinker_on"}
      [] key = "8" -> {"left_eye_on"}
      [] key = "9" -> {"right_eye_on"}
      [] key = "0" -> {"left_eye_on", "right_eye_on"}

\* The one driver call that switches the output of an individual toggle key.
Switch(key, on) ==
    CASE key = "1" -> Issued(IF on THEN "led_on" ELSE "led_off", <<Num(1)>>)
      [] key = "2" -> Issued(IF on THEN "led_on" ELSE "led_off", <<Num(0)>>)
      [] key = "8" -> Issued(IF on THEN "open_left_eye" ELSE "close_left_eye", <<>>)
      [] key = "9" -> Issued(IF on THEN "open_right_eye" ELSE "close_right_eye", <<>>)

\* C1: whenever the key is not in keybindings, or is bound to a suffix for which
\* the object has no method "_gopigo3_command_" + suffix, executeKeyboardJob
\* ends by returning "nothing": it raises nothing and issues no driver call,
\* whatever the toggle flags are.
C1_UnknownCommandIsNoOp ==
    (pc = 0 /\ method_name # ""
        /\ (\/ argument \notin DOMAIN self.keybindings
            \/ /\ argument \in DOMAIN self.keybindings
               /\ ("_gopigo3_command_" \o self.keybindings[argument][2]) \notin DOMAIN Class))
    => (result = "nothing" /\ calls = <<>> /\ FlagsOf(self) = entry)

\* C1 happens: a bound key whose handler does not exist was dispatched, with a
\* blinker and an eye on.
C1_Witness ==
    /\ pc = 0 /\ result = "nothing"
    /\ argument \in DOMAIN self.keybindings
    /\ self.left_blinker_on /\ self.right_eye_on

\* C2: each of the 18 keys bound by __init__, dispatched in any toggle state
\* with a driver that does not fail, returns one of "moving", "path", "static",
\* "exit" and never "nothing".
C2_BoundKeysClassified ==
    /\ Cardinality(DOMAIN self.keybindings) = 18
    /\ (pc = 0 /\ argument \in DOMAIN self.keybindings /\ result # "raised")
         => result \in {"moving", "path", "static", "exit"}

\* C2 happens: a bound key has returned its classification with toggles on.
C2_Witness ==
    /\ Returned /\ argument = "<F2>" /\ result = "path"
    /\ self.left_eye_on /\ self.right_blinker_on

\* C3: the both-blinkers toggle (key "3") takes the blinker flags (false, false)
\* to (true, true) and every other pair to (false, false).
C3_BothBlinkers ==
    (Returned /\ argument = "3")
    => /\ result = "static"
       /\ <<self.left_blinker_on, self.right_blinker_on>> =
            IF ~entry.left_blinker_on /\ ~entry.right_blinker_on
            THEN <<TRUE, TRUE>> ELSE <<FALSE, FALSE>>

\* C3 happens: the both-blinkers toggle has run from a mixed state.
C3_Witness ==
    /\ Returned /\ argument = "3"
    /\ ~entry.left_blinker_on /\ entry.right_blinker_on

\* C4: the both-eyes toggle (key "0") issues open_eyes and sets both eye flags
\* exactly when both were false at the start; otherwise it issues close_eyes and
\* clears both eye flags.
C4_BothEyes ==
    (Returned /\ argument = "0")
    => IF ~entry.left_eye_on /\ ~entry.right_eye_on
       THEN /\ calls = <<Issued("open_eyes", <<>>)>>
            /\ self.left_eye_on /\ self.right_eye_on
       ELSE /\ calls = <<Issued("close_eyes", <<>>)>>
            /\ ~self.left_eye_on /\ ~self.right_eye_on

\* C4 happens: the both-eyes toggle has run with exactly one eye on.
C4_Witness ==
    /\ Returned /\ argument = "0"
    /\ entry.left_eye_on /\ ~entry.right_eye_on

\* C5: each individual toggle (keys "1", "2", "8", "9") negates its own flag,
\* leaves the other three as they were, issues exactly one driver call, for its
\* own output and with the sense of the new flag value, and returns "static".
C5_IndividualToggle ==
    (Returned /\ argument \in {"1", "2", "8", "9"})
    => /\ result = "static"
       /\ \A f \in Flags :
            self[f] = IF f \in Controls(argument) THEN ~entry[f] ELSE entry[f]
       /\ \A f \in Controls(argument) : calls = <<Switch(argument, self[f])>>

\* C5 happens: the left blinker toggle has switched its LED off while the
\* other three outputs are on.
C5_Witness ==
    /\ Returned /\ argument = "1"
    /\ entry.left_blinker_on /\ ~self.left_blinker_on
    /\ self.right_blinker_on /\ self.left_eye_on /\ self.right_eye_on

\* The same toggle key has been dispatched twice in succession and both calls
\* have returned.
ToggledTwice == Returned /\ argument \in ToggleKeys /\ before.same

\* C6 as stated: for each of the six toggle handlers and every starting
\* combination of flags, invoking it twice in succession returns the flags it
\* controls to their original values.
C6_TwiceRestores ==
    ToggledTwice => \A f \in Controls(argument) : self[f] = before.flags[f]

\* C6 amended: twice in succession, an individual toggle always returns its flag
\* to the original value; a combined toggle returns its two flags to their
\* original values when they were equal at the start, and leaves both true when
\* exactly one of them was true at the start.
C6_TwiceRestoresUnlessMixed ==
    ToggledTwice =>
        IF \A f, g \in Controls(argument) : before.flags[f] = before.flags[g]
        THEN \A f \in Controls(argument) : self[f] = before.flags[f]
        ELSE \A f \in Controls(argument) : self[f]

\* C6 happens: the right eye toggle has run twice in succession, ending off.
C6_Witness ==
    /\ ToggledTwice /\ argument = "9"
    /\ ~before.flags.right_eye_on /\ ~self.right_eye_on

\* C7: the eye colour handler (key "e") never changes left_eye_on or
\* right_eye_on, whatever they are and whatever colour is drawn: at every point
\* of its run both flags are what they were when it started.
C7_EyeColourKeepsFlags ==
    argument = "e"
    => /\ self.left_eye_on = entry.left_eye_on
       /\ self.right_eye_on = entry.right_eye_on

\* C7 happens: the handler has returned with one eye on, one off and a drawn
\* colour that is neither black nor white.
C7_Witness ==
    /\ Returned /\ argument = "e"
    /\ self.left_eye_on /\ ~self.right_eye_on
    /\ locals.red = 255 /\ locals.green = 0

\* The calls that re-open the eyes whose flags are set.
Reopened ==
    (IF self.left_eye_on THEN <<Issued("open_left_eye", <<>>)>> ELSE <<>>)
    \o (IF self.right_eye_on THEN <<Issued("open_right_eye", <<>>)>> ELSE <<>>)

\* C8: the eye colour handler issues set_eye_color first, and after it one open
\* call for each eye whose flag is true and none for an eye whose flag is false.
C8_ColourThenReopen ==
    argument = "e"
    => /\ \A i \in DOMAIN calls :
            /\ (calls[i].name = "set_eye_color") <=> (i = 1)
            /\ calls[i].name = "open_left_eye" => self.left_eye_on
            /\ calls[i].name = "open_right_eye" => self.right_eye_on
       /\ Returned =>
            calls = <<Issued("set_eye_color", <<<<locals.red, locals.green, locals.blue>>>>)>>
                    \o Reopened

\* C8 happens: the handler has returned having re-opened the right eye only.
C8_Witness ==
    /\ Returned /\ argument = "e"
    /\ ~self.left_eye_on /\ self.right_eye_on /\ Len(calls) = 2

\* C9: when a driver call fails during the dance (key "5") or the delivery route
\* (key "7"), it is the last call of that invocation (no later call, no stop) and
\* executeKeyboardJob ends by raising instead of returning a classification.
C9_FailFast ==
    argument \in {"5", "7"}
    => \A i \in DOMAIN calls :
            ~calls[i].ok => (i = Len(calls) /\ Raised)

\* C9 happens: a driver call has failed in the middle of the dance.
C9_Witness ==
    /\ Raised /\ argument = "5"
    /\ Len(calls) > 100 /\ calls[Len(calls)].name = "steer"

LegNames == {"drive_inches", "turn_degrees"}

IsLeg(c) == c.name \in LegNames

\* The route as the claim lists it.
Route ==
    << <<"drive_inches", 49>>, <<"turn_degrees", 84>>, <<"drive_inches", 76>>,
       <<"turn_degrees", 82>>, <<"drive_inches", 40>>, <<"turn_degrees", 168>>,
       <<"drive_inches", -36>>, <<"drive_inches", -48>>, <<"turn_degrees", -82>>,
       <<"drive_inches", 80>>, <<"turn_degrees", -84>> >>

\* The legs issued so far, each as <<name, value>>.
LegsIssued ==
    LET legs == SelectSeq(calls, IsLeg)
    IN  [i \in 1..Len(legs) |-> <<legs[i].name, legs[i].args[1][1]>>]

\* The legs are issued in the authored order, once each, with integer values and
\* without any sleep; once the route has returned, all eleven have been issued.
RouteInOrder ==
    /\ Len(LegsIssued) <= Len(Route)
    /\ \A i \in 1..Len(LegsIssued) : LegsIssued[i] = Route[i]
    /\ \A i \in DOMAIN calls : IsLeg(calls[i]) => Len(calls[i].args) = 1 /\ calls[i].args[1][2] = 1
    /\ slept = 0
    /\ Returned => (result = "static" /\ LegsIssued = Route)

\* C10 as stated: the delivery route issues its legs in the authored order with
\* their signed values, once each and without an explicit wait, and every
\* set_speed call is issued immediately before a leg.
C10_RouteAndOverrides ==
    argument = "7"
    => /\ RouteInOrder
       /\ \A i \in DOMAIN calls :
            (calls[i].name = "set_speed" /\ i < Len(calls)) => IsLeg(calls[i + 1])

\* C10 amended: the legs are issued as stated; every set_speed call is followed
\* by a leg with no other motion call in between: immediately, except for the
\* first set_speed(300), after which init_servo() is called before the first leg.
C10_RouteAndOverridesButServo ==
    argument = "7"
    => /\ RouteInOrder
       /\ \A i \in DOMAIN calls :
            (calls[i].name = "set_speed" /\ i < Len(calls)) =>
                \/ IsLeg(calls[i + 1])
                \/ /\ i = 1 /\ calls[i + 1].name = "init_servo"
                   /\ (i + 1 < Len(calls) => IsLeg(calls[i + 2]))
       /\ Returned => calls[Len(calls)].name = "stop"

\* C10 happens: the delivery route has run to its end.
C10_Witness ==
    /\ Returned /\ argument = "7" /\ Len(calls) = 16

\* The driver call bound to each continuous-motion key.
MotionKeys == {"w", "s", "a", "d", "<SPACE>"}

MotionCall(key) ==
    CASE key = "w" -> Issued("forward", <<>>)
      [] key = "s" -> Issued("backward", <<>>)
      [] key = "a" -> Issued("left", <<>>)
      [] key = "d" -> Issued("right", <<>>)
      [] key = "<SPACE>" -> Issued("stop", <<>>)

\* C11: each continuous-motion handler (forward, backward, left, right, stop)
\* issues exactly one driver call, its own, never sleeps, and returns "moving".
C11_ContinuousMotion ==
    argument \in MotionKeys
    => /\ slept = 0
       /\ Len(calls) <= 1
       /\ Returned => (result = "moving" /\ calls = <<MotionCall(argument)>>)

\* C11 happens: the stop handler has returned.
C11_Witness ==
    Returned /\ argument = "<SPACE>" /\ Len(calls) = 1

PathKeys == {"<F1>", "<F2>", "<F3>"}

PathCall(key) ==
    CASE key = "<F1>" -> Issued("drive_cm", <<Num(10)>>)
      [] key = "<F2>" -> Issued("drive_inches", <<Num(10)>>)
      [] key = "<F3>" -> Issued("drive_degrees", <<Num(360)>>)

\* C12: each bounded-path handler (forward10cm, forward10in, forwardturn) issues
\* exactly one driver call (drive_cm(10), drive_inches(10), drive_degrees(360)),
\* never sleeps, and returns "path" only once that call has returned.
C12_BoundedPath ==
    argument \in PathKeys
    => /\ slept = 0
       /\ Len(calls) <= 1
       /\ result \in {"none", "raised", "path"}
       /\ result = "path" <=> (pc = 0 /\ calls = <<PathCall(argument)>>)

\* C12 happens: the 10 inch handler has returned after its drive call.
C12_Witness ==
    Returned /\ argument = "<F2>" /\ calls = <<PathCall("<F2>")>>

\* The order list of the object lacks a key that keybindings binds.
OrderLacksBoundKey ==
    \E k \in DOMAIN self.keybindings :
        \A i \in DOMAIN self.order_of_keys : self.order_of_keys[i] # k

\* drawMenu was the last operation called on the object.
MenuDrawn == pc = 0 /\ printed # <<>>

\* C13: when the display-order list lacks a key that keybindings binds, drawMenu
\* prints the mismatch error, and executeKeyboardJob still resolves every bound
\* key to its handler.
C13_MissingKeyWarns ==
    /\ (MenuDrawn /\ OrderLacksBoundKey) => (\E i \in DOMAIN printed : printed[i] = MenuError)
    /\ (Returned /\ argument \in DOMAIN self.keybindings) => result # "nothing"

\* The driver calls that set the robot moving.
MotionCommands ==
    {"forward", "backward", "left", "right", "steer",
     "drive_cm", "drive_inches", "drive_degrees", "turn_degrees"}

\* C14: executeKeyboardJob returns "static" only for handlers during which the
\* robot does not move: no handler that returns "static" has issued a motion
\* command (forward, backward, steer, drive_*, turn_degrees).
C14_StaticMeansNoMotion ==
    (Returned /\ result = "static")
    => \A i \in DOMAIN calls : calls[i].name \notin MotionCommands

\* C15: the four toggle flags start all false, and a flag changes only inside one
\* of the six toggle handlers: no step of a motion, path, dance, delivery, exit
\* or unbound key, and no drawing of the menu, changes any of them.
C15_OnlyTogglesChangeFlags ==
    /\ \A f \in Flags : ~self[f]
    /\ [][FlagsOf(self') # FlagsOf(self) => (pc > 0 /\ argument \in ToggleKeys)]_vars

\* C15 happens: the dance has run to its end with all four flags set.
C15_Witness ==
    /\ Returned /\ argument = "5"
    /\ \A f \in Flags : self[f] /\ entry[f]

\* C16: executeKeyboardJob returns "exit" if and only if the key is "<ESC>", and
\* the exit handler issues no driver call.
C16_ExitOnlyOnEscape ==
    /\ Returned => (result = "exit" <=> argument = "<ESC>")
    /\ argument = "<ESC>" => (calls = <<>> /\ slept = 0)

\* C16 happens: "<ESC>" has been dispatched after other keys and returned "exit".
C16_Witness ==
    /\ Returned /\ argument = "<ESC>" /\ result = "exit"
    /\ self.left_blinker_on /\ self.left_eye_on

\* The beat markers written in the dance, as the claim lists them (and "beat 0").
BeatMarkers == {0, 16, 24, 42, 55, 64, 70, 78, 86, 94, 102, 112, 120}

\* C17: in the dance, at each in-code beat marker the holds issued so far add up
\* to the marker's value in beats (16, 24, 42, 55, 64, 70, 78, 86, 94, 102, 112,
\* 120), and the holds of the whole routine add up to 128 beats.  (slept counts
\* half beats.)
C17_BeatsAtMarkers ==
    argument = "5"
    => /\ (Running /\ ins.op = "mark") => (ins.beat \in BeatMarkers /\ slept = 2 * ins.beat)
       /\ Returned => slept = 2 * 128

\* C17 happens: the dance has reached its last marker, """Beat 120""".
C17_Witness ==
    /\ argument = "5" /\ Running /\ ins.op = "mark"
    /\ ins.beat = 120 /\ Len(calls) > 100

IsInteger(x) == x[2] # 0 /\ x[1] % x[2] = 0

\* -100 <= x <= 100, for a fraction x with a positive denominator
IsPercent(x) == x[2] > 0 /\ -100 * x[2] <= x[1] /\ x[1] <= 100 * x[2]

\* C18 as stated: every steer call of the dance passes a left and a right power
\* that are both integers in [-100, 100].
C18_SteerIntegerPercent ==
    argument = "5"
    => \A i \in DOMAIN calls :
         calls[i].name = "steer"
         => /\ Len(calls[i].args) = 2
            /\ \A j \in 1..2 : IsPercent(calls[i].args[j]) /\ IsInteger(calls[i].args[j])

\* C18 amended: every steer call of the dance passes a left and a right power in
\* [-100, 100]; both are integers, except in the one call steer(100, 13.5) of
\* line 286, whose right power is 13.5.
C18_SteerPercent ==
    argument = "5"
    => \A i \in DOMAIN calls :
         calls[i].name = "steer"
         => /\ Len(calls[i].args) = 2
            /\ \A j \in 1..2 : IsPercent(calls[i].args[j])
            /\ \/ \A j \in 1..2 : IsInteger(calls[i].args[j])
               \/ calls[i].args = <<Num(100), Frac(27, 2)>>

\* C18 happens: the dance has run to its end, steer(100, 13.5) and a reverse
\* steer among its calls.
C18_Witness ==
    /\ Returned /\ argument = "5"
    /\ \E i \in DOMAIN calls : calls[i].name = "steer" /\ calls[i].args[2] = Frac(27, 2)
    /\ \E i \in DOMAIN calls : calls[i].name = "steer" /\ calls[i].args[1] = Num(-100)

\* C19: starting from all outputs off, whenever a dispatch has returned
\* normally, each of the four toggle flags equals the on/off state of its output
\* as the last on/off driver call issued for that output left it.
C19_FlagsMatchOutputs ==
    Returned
    => /\ self.left_blinker_on = outputs.left_blinker
       /\ self.right_blinker_on = outputs.right_blinker
       /\ self.left_eye_on = outputs.left_eye
       /\ self.right_eye_on = outputs.right_eye

\* C20: when a driver call fails inside one of the six toggle handlers, all four
\* flags keep the values they had when the handler was invoked: a flag is
\* assigned only after every driver call of the handler has returned.
C20_FailedToggleKeepsFlags ==
    argument \in ToggleKeys
    => /\ Raised => FlagsOf(self) = entry
       /\ FlagsOf(self) # entry =>
            /\ \A i \in DOMAIN calls : calls[i].ok
            /\ Len(calls) = IF argument = "3" THEN 2 ELSE 1

\* C20 happens: the second LED call of the both-blinkers toggle has failed after
\* the first one returned, with an eye flag set.
C20_Witness ==
    /\ Raised /\ argument = "3"
    /\ Len(calls) = 2 /\ calls[1].ok /\ ~calls[2].ok
    /\ self.left_eye_on


\* C21: on a driver whose calls always return, the dance terminates.  Its
\* slow-down loop runs exactly 12 times: the calls after set_speed(250) are
\* set_speed(300), steer(100, 100), set_speed(275), steer(100, 100), ...,
\* set_speed(25), steer(100, 100), never a speed of zero or less, one beat is
\* held per iteration, and the call after them is the turn of beat 55.  The
\* routine then goes on to stop() and set_speed(500) and returns.
SlowLoop == CHOOSE i \in 1..Len(_gopigo3_command_activatedance) :
                _gopigo3_command_activatedance[i].op = "while"

CallsBefore(i) ==
    Cardinality({ j \in 1..(i - 1) : _gopigo3_command_activatedance[j].op = "call" })

RECURSIVE HalfBeatsBefore(_)
HalfBeatsBefore(i) ==
    IF i <= 1 THEN 0
    ELSE LET s == _gopigo3_command_activatedance[i - 1]
         IN  HalfBeatsBefore(i - 1)
               + (IF s.op = "sleep" THEN (2 * s.n) \div s.d ELSE 0)

Dancing == argument = "5" /\ method_name = "_gopigo3_command_activatedance"

SlowLoopCalls ==
    Dancing =>
        LET base == CallsBefore(SlowLoop)
        IN  /\ \A k \in 1..12 :
                /\ Len(calls) >= base + 2 * k - 1 =>
                      /\ calls[base + 2 * k - 1]
                            = Issued("set_speed", <<Num(325 - 25 * k)>>)
                      /\ calls[base + 2 * k - 1].args[1][1] > 0
                /\ Len(calls) >= base + 2 * k =>
                      calls[base + 2 * k] = Issued("steer", <<Num(100), Num(100)>>)
            /\ Len(calls) > base + 24 =>
                  calls[base + 24 + 1] = Issued("set_speed", <<Num(turn90Deg)>>)

SlowLoopHolds ==
    (Dancing /\ pc = SlowLoop) =>
        /\ locals["slowCounter"] \in 0..12
        /\ Len(calls) = CallsBefore(SlowLoop) + 2 * (12 - locals["slowCounter"])
        /\ slept = HalfBeatsBefore(SlowLoop) + 2 * (12 - locals["slowCounter"])

DanceTail ==
    (Dancing /\ pc = 0 /\ result # "none") =>
        /\ result = "static"
        \* every call statement once, the two of the loop body 11 times more
        /\ Len(calls) = CallsBefore(Len(_gopigo3_command_activatedance) + 1) + 2 * 11
        /\ calls[Len(calls) - 1] = Issued("stop", <<>>)
        /\ calls[Len(calls)] = Issued("set_speed", <<Num(500)>>)

C21_DanceTerminates ==
    /\ [](SlowLoopCalls /\ SlowLoopHolds /\ DanceTail)
    /\ (Dancing /\ pc > 0) ~> (Dancing /\ pc = 0 /\ result = "static")

C21_Witness ==
    /\ Dancing /\ pc = 0 /\ result = "static"
    /\ calls[CallsBefore(SlowLoop) + 1] = Issued("set_speed", <<Num(300)>>)
    /\ calls[CallsBefore(SlowLoop) + 23] = Issued("set_speed", <<Num(25)>>)
    /\ calls[CallsBefore(SlowLoop) + 24] = Issued("steer", <<Num(100), Num(100)>>)
    /\ calls[Len(calls)] = Issued("set_speed", <<Num(500)>>)

=============================================================================
